---- MODULE Spec2Model ----
(***************************************************************************)
(* zepid/graphics/graphics.py: the effectmeasure_plot class (forest plot   *)
(* with a table) and func_form_plot (functional form assessment).          *)
(*                                                                         *)
(* Numbers are fixed point, in hundredths: 0.85 is 85, 9 is 900.  Every    *)
(* input value lies on the tenths grid or is a text with two decimals      *)
(* whose last digit is not 5, so that rounding a binary float and rounding *)
(* the decimal value agree (ties only occur at x.5, which is exact).       *)
(* A float is [nan, v]; a list element (a cell) is a float or a str.       *)
(***************************************************************************)
EXTENDS Integers, Sequences, FiniteSets, TLC

VARIABLES
    label, effect_measure, lcl, ucl,   \* arguments of effectmeasure_plot(...)
    phase,                             \* "args" | "ready" | "ctor_error"
    df,                                \* self.df, a sequence of rows
    em, ci, scale, center,             \* self.em, self.ci, self.scale, self.center
    errc, shape, pc, linec,            \* self.errc, self.shape, self.pc, self.linec
    supplied,                          \* history: keyword -> last value a call gave it
    last, exc,                         \* the last method called, and what it raised
    tval, ytick, maxi, mini,           \* locals of plot()
    fig,                               \* what plot() handed to matplotlib
    data, outcome_type, loess, points, \* arguments of func_form_plot(...)
    ffpc,                              \* position inside func_form_plot
    rf, dropped,                       \* rf, and the printed count
    calls,                             \* library calls made so far, in order
    pf, sizes                          \* pf, and the s= argument of plt.scatter

emvars == <<label, effect_measure, lcl, ucl, phase, df, em, ci, scale, center,
            errc, shape, pc, linec, supplied, last, exc, tval, ytick, maxi,
            mini, fig>>
ffvars == <<data, outcome_type, loess, points, ffpc, rf, dropped, calls, pf, sizes>>
vars == <<emvars, ffvars>>

-----------------------------------------------------------------------------
(* Bounds *)

MaxRows == 2
MaxCfgRows == 1
MaxObs == 2

-----------------------------------------------------------------------------
(* Values *)

F(x) == [kind |-> "float", nan |-> FALSE, v |-> x, s |-> <<>>]
FNaN == [kind |-> "float", nan |-> TRUE, v |-> 0, s |-> <<>>]
S(chars) == [kind |-> "str", nan |-> FALSE, v |-> 0, s |-> chars]

Num(x) == [nan |-> FALSE, v |-> x]
NaN == [nan |-> TRUE, v |-> 0]

isfloat(c) == c.kind = "float"

Digits == {"0", "1", "2", "3", "4", "5", "6", "7", "8", "9"}

DigitVal(c) ==
    CASE c = "0" -> 0 [] c = "1" -> 1 [] c = "2" -> 2 [] c = "3" -> 3
      [] c = "4" -> 4 [] c = "5" -> 5 [] c = "6" -> 6 [] c = "7" -> 7
      [] c = "8" -> 8 [] c = "9" -> 9

RECURSIVE IntOf(_)
IntOf(ds) ==
    IF ds = <<>> THEN 0
    ELSE 10 * IntOf(SubSeq(ds, 1, Len(ds) - 1)) + DigitVal(ds[Len(ds)])

AllDigits(ds) == \A i \in 1..Len(ds) : ds[i] \in Digits

Unsigned(chars) == IF chars # <<>> /\ chars[1] = "-" THEN Tail(chars) ELSE chars

DotAt(chars) ==
    IF \E i \in 1..Len(chars) : chars[i] = "."
    THEN CHOOSE i \in 1..Len(chars) : chars[i] = "." /\ \A j \in 1..(i - 1) : chars[j] # "."
    ELSE Len(chars) + 1

WholePart(chars) == SubSeq(chars, 1, DotAt(chars) - 1)
FracPart(chars) == SubSeq(chars, DotAt(chars) + 1, Len(chars))

\* float(s) succeeds: [-]digits[.digits], at least one digit (at most two decimals here)
CanParse(chars) ==
    LET u == Unsigned(chars)
    IN  /\ AllDigits(WholePart(u))
        /\ AllDigits(FracPart(u))
        /\ Len(WholePart(u)) + Len(FracPart(u)) > 0
        /\ Len(FracPart(u)) <= 2

\* float(s), in hundredths
ParseFloat(chars) ==
    LET u == Unsigned(chars)
        fr == FracPart(u)
        f2 == IF Len(fr) = 0 THEN 0
              ELSE IF Len(fr) = 1 THEN 10 * DigitVal(fr[1])
              ELSE 10 * DigitVal(fr[1]) + DigitVal(fr[2])
        mag == 100 * IntOf(WholePart(u)) + f2
    IN  IF chars # <<>> /\ chars[1] = "-" THEN 0 - mag ELSE mag

\* Series.astype(str).astype(float) on one element (line 101)
AsFloat(c) ==
    IF isfloat(c) THEN [nan |-> c.nan, v |-> c.v] ELSE Num(ParseFloat(c.s))

AsFloatFails(c) == ~isfloat(c) /\ ~CanParse(c.s)

\* pd.to_numeric on one element (lines 105, 109, 191-200)
to_numeric(c) ==
    IF isfloat(c) THEN [nan |-> c.nan, v |-> c.v] ELSE Num(ParseFloat(c.s))

\* a - b on floats
Sub(a, b) == IF a.nan \/ b.nan THEN NaN ELSE Num(a.v - b.v)

Pow10(d) == IF d = 0 THEN 100 ELSE IF d = 1 THEN 10 ELSE 1

\* round(x, d) for x in hundredths: to the nearest multiple of 10^-d, ties to even
RoundTo(x, d) ==
    LET u == Pow10(d)
        q == x \div u
        r == x % u
    IN  IF 2 * r < u THEN q * u
        ELSE IF 2 * r > u THEN (q + 1) * u
        ELSE IF q % 2 = 0 THEN q * u ELSE (q + 1) * u

Unset == [set |-> FALSE, v |-> 0]
Assigned(x) == [set |-> TRUE, v |-> x]

-----------------------------------------------------------------------------
(* effectmeasure_plot: arguments *)

Blank == S(<<" ">>)

LclFloats == {F(0 - 50), F(0), F(50), F(150)}
UclFloats == {F(80), F(500), F(900), F(1500)}

\* one element of each of effect_measure, lcl, ucl: floats, texts that keep
\* their trailing zeros, the docstring's mix of both, nan, and the ' ' of
\* the constructor's docstring
RowInputs ==
    {<<F(100), l, u>> : l \in LclFloats, u \in UclFloats}
    \cup {<<S(<<"1", ".", "3", "0">>), S(<<"0", ".", "9", "0">>), S(<<"1", ".", "5", "0">>)>>,
          <<F(100), S(<<"0", ".", "9", "0">>), F(150)>>,
          <<FNaN, FNaN, FNaN>>,
          <<Blank, Blank, Blank>>}

\* the rows the configuration specification constructs its object from
CfgRowInputs == {<<F(100), F(50), F(150)>>, <<F(100), F(0), F(900)>>}

EmVals == {"OR", "RR"}
CiVals == {"95% CI", "90% CI"}
ScaleVals == {"log", "linear", "sqrt"}
CenterVals == {0}
ErrcVals == {"r"}
LinecVals == {"r"}
PcVals == {"r", "b"}
ShapeVals == {"o"}
DecimalArgs == {0, 1, 3}

\* a keyword argument: <<>> when the call does not pass it, <<value>> when it does
Opt(Vals) == {<<>>} \cup {<<x>> : x \in Vals}
Given(o) == o # <<>>

NoFig ==
    [xscale |-> "none", xerr |-> <<>>, errorbar |-> FALSE, yticks |-> <<>>,
     xlim |-> <<>>, colLabels |-> <<>>, cellText |-> <<>>, shown |-> FALSE]

NoSupplied ==
    [effectmeasure |-> <<>>, conf_int |-> <<>>, scale |-> <<>>, center |-> <<>>,
     errorbarcolor |-> <<>>, linecolor |-> <<>>, pointcolor |-> <<>>,
     pointshape |-> <<>>]

FFIdle ==
    /\ data = <<>> /\ outcome_type = "binary" /\ loess = TRUE /\ points = FALSE
    /\ ffpc = "idle" /\ rf = <<>> /\ dropped = 0 /\ calls = <<>>
    /\ pf = <<>> /\ sizes = <<>>

\* before the constructor runs: the four argument lists, of equal length
EMArgs(Rows, n) ==
    \E rows \in [1..n -> Rows] :
        /\ label = [i \in 1..n |-> i]
        /\ effect_measure = [i \in 1..n |-> rows[i][1]]
        /\ lcl = [i \in 1..n |-> rows[i][2]]
        /\ ucl = [i \in 1..n |-> rows[i][3]]

EMFresh ==
    /\ phase = "args" /\ df = <<>>
    /\ em = "" /\ ci = "" /\ scale = "" /\ center = 0
    /\ errc = "" /\ shape = "" /\ pc = "" /\ linec = ""
    /\ supplied = NoSupplied
    /\ last = "none" /\ exc = "none"
    /\ tval = <<>> /\ ytick = <<>> /\ maxi = Unset /\ mini = Unset
    /\ fig = NoFig

-----------------------------------------------------------------------------
(* effectmeasure_plot.__init__ *)

AllFloat(list) == \A i \in 1..Len(list) : isfloat(list[i])

\* lines 102-105: self.df['LCL_dif']
LCL_dif(i) ==
    IF AllFloat(lcl) /\ AllFloat(effect_measure)
    THEN Sub(AsFloat(effect_measure[i]), AsFloat(lcl[i]))
    ELSE Sub(to_numeric(effect_measure[i]), to_numeric(lcl[i]))

\* lines 106-109: self.df['UCL_dif']
UCL_dif(i) ==
    IF AllFloat(ucl) /\ AllFloat(effect_measure)
    THEN Sub(AsFloat(ucl[i]), AsFloat(effect_measure[i]))
    ELSE Sub(to_numeric(ucl[i]), to_numeric(effect_measure[i]))

BuildRow(i) ==
    [study |-> label[i], OR |-> effect_measure[i], LCL |-> lcl[i], UCL |-> ucl[i],
     OR2 |-> AsFloat(effect_measure[i]),
     LCL_dif |-> LCL_dif(i), UCL_dif |-> UCL_dif(i)]

\* line 101 (and the to_numeric of lines 105, 109) raises ValueError on a text
\* that is no number
CtorFails ==
    \E i \in 1..Len(effect_measure) :
        \/ AsFloatFails(effect_measure[i])
        \/ AsFloatFails(lcl[i])
        \/ AsFloatFails(ucl[i])

EMInit ==
    /\ phase = "args"
    /\ last' = "__init__"
    /\ IF CtorFails
       THEN /\ phase' = "ctor_error"
            /\ exc' = "ValueError"
            /\ UNCHANGED <<df, em, ci, scale, center, errc, shape, pc, linec>>
       ELSE /\ phase' = "ready"
            /\ exc' = "none"
            /\ df' = [i \in 1..Len(effect_measure) |-> BuildRow(i)]
            /\ em' = "OR"
            /\ ci' = "95% CI"
            /\ scale' = "log"
            /\ center' = 100
            /\ errc' = "dimgrey"
            /\ shape' = "d"
            /\ pc' = "k"
            /\ linec' = "gray"
    /\ UNCHANGED <<label, effect_measure, lcl, ucl, supplied, tval, ytick, maxi, mini, fig>>
    /\ UNCHANGED ffvars

-----------------------------------------------------------------------------
(* effectmeasure_plot.labels, effectmeasure_plot.colors *)

\* the locals of an earlier plot() are gone when another method runs
PlotLocalsGone == tval' = <<>> /\ ytick' = <<>> /\ maxi' = Unset /\ mini' = Unset /\ fig' = NoFig

\* line 136: the key whose presence decides whether self.ci is assigned
CiGuardKey(kw) == kw.ci

\* lines 134-141; kwargs['conf_int'] raises KeyError when 'conf_int' is absent
labels(kw) ==
    /\ phase = "ready"
    /\ last' = "labels"
    /\ em' = IF Given(kw.effectmeasure) THEN kw.effectmeasure[1] ELSE em
    /\ IF Given(CiGuardKey(kw)) /\ ~Given(kw.conf_int)
       THEN /\ exc' = "KeyError"
            /\ UNCHANGED <<ci, scale, center>>
       ELSE /\ exc' = "none"
            /\ ci' = IF Given(CiGuardKey(kw)) THEN kw.conf_int[1] ELSE ci
            /\ scale' = IF Given(kw.scale) THEN kw.scale[1] ELSE scale
            /\ center' = IF Given(kw.center) THEN kw.center[1] ELSE center
    /\ supplied' = [supplied EXCEPT
                      !.effectmeasure = IF Given(kw.effectmeasure) THEN kw.effectmeasure ELSE @,
                      !.conf_int = IF Given(kw.conf_int) THEN kw.conf_int ELSE @,
                      !.scale = IF Given(kw.scale) THEN kw.scale ELSE @,
                      !.center = IF Given(kw.center) THEN kw.center ELSE @]
    /\ PlotLocalsGone
    /\ UNCHANGED <<label, effect_measure, lcl, ucl, phase, df, errc, shape, pc, linec>>
    /\ UNCHANGED ffvars

Labels ==
    \E e \in Opt(EmVals), c \in Opt(CiVals), k \in Opt({"99% CI"}), s \in Opt(ScaleVals), r \in Opt(CenterVals) :
        labels([effectmeasure |-> e, conf_int |-> c, ci |-> k, scale |-> s, center |-> r])

\* lines 157-164
colors(kw) ==
    /\ phase = "ready"
    /\ last' = "colors"
    /\ exc' = "none"
    /\ errc' = IF Given(kw.errorbarcolor) THEN kw.errorbarcolor[1] ELSE errc
    /\ shape' = IF Given(kw.pointshape) THEN kw.pointshape[1] ELSE shape
    /\ linec' = IF Given(kw.linecolor) THEN kw.linecolor[1] ELSE linec
    /\ pc' = IF Given(kw.pointcolor) THEN kw.pointcolor[1] ELSE pc
    /\ supplied' = [supplied EXCEPT
                      !.errorbarcolor = IF Given(kw.errorbarcolor) THEN kw.errorbarcolor ELSE @,
                      !.pointshape = IF Given(kw.pointshape) THEN kw.pointshape ELSE @,
                      !.linecolor = IF Given(kw.linecolor) THEN kw.linecolor ELSE @,
                      !.pointcolor = IF Given(kw.pointcolor) THEN kw.pointcolor ELSE @]
    /\ PlotLocalsGone
    /\ UNCHANGED <<label, effect_measure, lcl, ucl, phase, df, em, ci, scale, center>>
    /\ UNCHANGED ffvars

Colors ==
    \E e \in Opt(ErrcVals), l \in Opt(LinecVals), p \in Opt(PcVals), h \in Opt(ShapeVals) :
        colors([errorbarcolor |-> e, linecolor |-> l, pointcolor |-> p, pointshape |-> h])

-----------------------------------------------------------------------------
(* effectmeasure_plot.plot *)

BlankCells == [em |-> Blank, ci |-> [text |-> " ", lo |-> Blank, hi |-> Blank]]

RoundCell(c, decimal) == F(RoundTo(c.v, decimal))

\* lines 182-189: the table cells of row i (1-based here, i - 1 in the code)
TableRow(row, decimal) ==
    IF ~row.OR2.nan
    THEN IF isfloat(row.OR) /\ isfloat(row.LCL) /\ isfloat(row.UCL)
         THEN [em |-> F(RoundTo(row.OR2.v, decimal)),
               ci |-> [text |-> "(lo, hi)", lo |-> RoundCell(row.LCL, decimal),
                       hi |-> RoundCell(row.UCL, decimal)]]
         ELSE [em |-> row.OR, ci |-> [text |-> "(lo, hi)", lo |-> row.LCL, hi |-> row.UCL]]
    ELSE BlankCells

\* the loop with a plausible slip: a row without an estimate appends nothing
RECURSIVE TvalLoopSkipBlank(_, _, _)
TvalLoopSkipBlank(rows, decimal, acc) ==
    IF rows = <<>> THEN acc
    ELSE TvalLoopSkipBlank(Tail(rows), decimal,
                           IF Head(rows).OR2.nan THEN acc
                           ELSE Append(acc, TableRow(Head(rows), decimal)))

\* lines 179-190: the loop, one append to tval and one to ytick per index
RECURSIVE TvalLoop(_, _, _)
TvalLoop(rows, decimal, acc) ==
    IF rows = <<>> THEN acc
    ELSE TvalLoop(Tail(rows), decimal, Append(acc, TableRow(Head(rows), decimal)))

RECURSIVE YtickLoop(_, _, _)
YtickLoop(rows, i, acc) ==
    IF rows = <<>> THEN acc
    ELSE YtickLoop(Tail(rows), i + 1, Append(acc, i))

\* Series.max() and Series.min(): nan is skipped, nan when nothing is left
NumbersOf(list) == {to_numeric(list[i]).v : i \in {j \in 1..Len(list) : ~to_numeric(list[j]).nan}}

SeriesMax(list) ==
    IF NumbersOf(list) = {} THEN NaN
    ELSE Num(CHOOSE x \in NumbersOf(list) : \A y \in NumbersOf(list) : y <= x)

SeriesMin(list) ==
    IF NumbersOf(list) = {} THEN NaN
    ELSE Num(CHOOSE x \in NumbersOf(list) : \A y \in NumbersOf(list) : x <= y)

\* line 193: the middle tier of the x-axis maximum
MidTier(m) == m < 900 /\ m >= 100

\* lines 191-196: three independent if statements; a comparison with nan is False
Maxi(m) ==
    LET a == IF ~m.nan /\ m.v < 100 THEN Assigned(RoundTo(m.v + 5, 2)) ELSE Unset
        b == IF ~m.nan /\ MidTier(m.v) THEN Assigned(RoundTo(m.v + 100, 0)) ELSE a
    IN  IF ~m.nan /\ m.v > 900 THEN Assigned(RoundTo(m.v + 1000, 0)) ELSE b

\* lines 197-200
Mini(m) ==
    LET a == IF ~m.nan /\ m.v > 0 THEN Assigned(RoundTo(m.v - 10, 1)) ELSE Unset
    IN  IF ~m.nan /\ m.v < 0 THEN Assigned(RoundTo(m.v - 5, 2)) ELSE a

\* a plausible slip: plot.set_xscale(self.scale), whatever the scale is
XScalePassed(s) == s

\* lines 206-207: set_xscale is called for 'log' only; a new axis is linear
XScale(s) == IF s = "log" THEN "log" ELSE "linear"

\* line 209: xerr=[self.df.LCL_dif, self.df.UCL_dif]
Xerr == [i \in 1..Len(df) |-> <<df[i].LCL_dif, df[i].UCL_dif>>]

NegativeXerr ==
    \E i \in 1..Len(df) :
        \/ ~df[i].LCL_dif.nan /\ df[i].LCL_dif.v < 0
        \/ ~df[i].UCL_dif.nan /\ df[i].UCL_dif.v < 0

\* plot(t_adjuster, decimal, size); t_adjuster and size only place and scale
\* the figure.  Whether errorbar (line 209) raises ValueError on a negative
\* width depends on the matplotlib installed: `rejects` is that choice.
plot(decimal, rejects) ==
    /\ phase = "ready"
    /\ rejects => NegativeXerr
    /\ last' = "plot"
    /\ tval' = TvalLoop(df, decimal, <<>>)
    /\ ytick' = YtickLoop(df, 0, <<>>)
    /\ maxi' = Maxi(SeriesMax([i \in 1..Len(df) |-> df[i].UCL]))
    /\ mini' = Mini(SeriesMin([i \in 1..Len(df) |-> df[i].LCL]))
    /\ IF rejects
       THEN /\ exc' = "ValueError"
            /\ fig' = [NoFig EXCEPT !.xscale = XScale(scale)]
       ELSE IF ~maxi'.set \/ ~mini'.set
       THEN /\ exc' = "UnboundLocalError"
            /\ fig' = [NoFig EXCEPT !.xscale = XScale(scale), !.xerr = Xerr,
                                    !.errorbar = TRUE, !.yticks = ytick']
       ELSE /\ exc' = "none"
            /\ fig' = [xscale |-> XScale(scale), xerr |-> Xerr, errorbar |-> TRUE,
                       yticks |-> ytick',
                       xlim |-> <<mini'.v, maxi'.v>>,
                       colLabels |-> <<em, ci>>, cellText |-> tval', shown |-> TRUE]
    /\ UNCHANGED <<label, effect_measure, lcl, ucl, phase, df, em, ci, scale, center,
                   errc, shape, pc, linec, supplied>>
    /\ UNCHANGED ffvars

Plot == \E decimal \in DecimalArgs, rejects \in BOOLEAN : plot(decimal, rejects)

-----------------------------------------------------------------------------
(* Specifications of effectmeasure_plot *)

\* construction and rendering, over every table of up to MaxRows rows
InitPlot == (\E n \in 0..MaxRows : EMArgs(RowInputs, n)) /\ EMFresh /\ FFIdle
NextPlot == EMInit \/ Plot
SpecPlot == InitPlot /\ [][NextPlot]_vars

\* labels before rendering, over a few small tables
InitCfg == (\E n \in 1..MaxCfgRows : EMArgs(CfgRowInputs, n)) /\ EMFresh /\ FFIdle
NextLabels == EMInit \/ Labels \/ Plot
SpecLabels == InitCfg /\ [][NextLabels]_vars

\* any sequence of labels and colors calls on one object
InitOne == EMArgs({<<F(100), F(50), F(150)>>}, 1) /\ EMFresh /\ FFIdle
NextCfg == EMInit \/ Labels \/ Colors
SpecCfg == InitOne /\ [][NextCfg]_vars

-----------------------------------------------------------------------------
(* func_form_plot(df, outcome, var, ...) with f_form=None, link_dist=None.  *)
(* A dataset row is [x, y, z]: the predictor var, the outcome, and one      *)
(* column the model does not reference; NA is a missing value.              *)

NA == -1

XVals == {1, 2}
YVals == {0, 1}
ZVals == {0}
OutcomeTypes == {"binary", "continuous", "count"}

DataRows == [x : XVals \cup {NA}, y : YVals \cup {NA}, z : ZVals \cup {NA}]

EMIdle ==
    /\ label = <<>> /\ effect_measure = <<>> /\ lcl = <<>> /\ ucl = <<>>
    /\ EMFresh

\* line 272: DataFrame.dropna() keeps the rows with no missing value in the
\* columns it looks at
DropnaCols == {"x", "y", "z"}

Complete(row) == \A c \in DropnaCols : row[c] # NA

RECURSIVE Dropna(_, _, _)
Dropna(rows, i, acc) ==
    IF i > Len(rows) THEN acc
    ELSE Dropna(rows, i + 1,
                IF Complete(rows[i])
                THEN Append(acc, [index |-> i - 1, x |-> rows[i].x, y |-> rows[i].y, z |-> rows[i].z])
                ELSE acc)

\* sort_values(by=[var, outcome]): the order of the keys
Before(a, b) == a.x < b.x \/ (a.x = b.x /\ a.y < b.y)

RECURSIVE Insert(_, _)
Insert(sorted, r) ==
    IF sorted = <<>> THEN <<r>>
    ELSE IF Before(r, Head(sorted)) THEN <<r>> \o sorted
    ELSE <<Head(sorted)>> \o Insert(Tail(sorted), r)

RECURSIVE SortValues(_, _)
SortValues(rows, acc) ==
    IF rows = <<>> THEN acc ELSE SortValues(Tail(rows), Insert(acc, Head(rows)))

\* lines 271-282: rf, the two prints, and the defaults of f_form and link_dist
FFPrepare ==
    /\ ffpc = "start"
    /\ rf' = SortValues(Dropna(data, 1, <<>>), <<>>)
    /\ dropped' = Len(data) - Len(rf')
    /\ ffpc' = "prepared"
    /\ UNCHANGED <<data, outcome_type, loess, points, calls, pf, sizes>>
    /\ UNCHANGED emvars

\* the mean the model outcome ~ C(var) predicts for a row: the share of the
\* outcome among the rows with the row's value of var, as [num, den]
RowsAt(x) == {i \in 1..Len(rf) : rf[i].x = x}

RECURSIVE Sum(_, _)
Sum(f, I) == IF I = {} THEN 0 ELSE LET i == CHOOSE j \in I : TRUE IN f[i] + Sum(f, I \ {i})

PredictedMean(x) == [num |-> Sum([i \in 1..Len(rf) |-> rf[i].y], RowsAt(x)), den |-> Cardinality(RowsAt(x))]

YKey(i, otype) == IF otype = "binary" THEN PredictedMean(rf[i].x) ELSE [num |-> rf[i].y, den |-> 1]

\* groupby(by=[var, key]).count().reset_index(): one row per distinct pair,
\* in the order of the keys (rf is sorted already), n the size of the group
GroupKeys(otype) == {<<rf[i].x, YKey(i, otype)>> : i \in 1..Len(rf)}

RECURSIVE GroupBy(_, _, _)
GroupBy(i, otype, acc) ==
    IF i > Len(rf) THEN acc
    ELSE LET k == <<rf[i].x, YKey(i, otype)>>
         IN  IF \E g \in 1..Len(acc) : <<acc[g].x, acc[g].y>> = k
             THEN GroupBy(i + 1, otype,
                          [g \in 1..Len(acc) |->
                              IF <<acc[g].x, acc[g].y>> = k
                              THEN [acc[g] EXCEPT !.n = @ + 1] ELSE acc[g]])
             ELSE GroupBy(i + 1, otype, Append(acc, [x |-> k[1], y |-> k[2], n |-> 1]))

\* smf.glm(...).fit() raises on an empty dataset; on another one statsmodels
\* decides (perfect separation, a singular design): `fits` is that outcome
CanFit(fits) == fits /\ rf # <<>>

\* lines 283-303
FFReference(fits) ==
    /\ ffpc = "prepared"
    /\ IF loess \/ points
       THEN IF outcome_type = "binary"
            THEN IF CanFit(fits)
                 THEN /\ calls' = calls \o <<"glm.fit">> \o (IF loess THEN <<"lowess">> ELSE <<>>)
                      /\ pf' = IF points THEN GroupBy(1, "binary", <<>>) ELSE pf
                      /\ ffpc' = "referenced"
                 ELSE /\ calls' = Append(calls, "glm.fit")
                      /\ ffpc' = "fit_error"
                      /\ pf' = pf
            ELSE IF outcome_type = "continuous"
            THEN /\ calls' = calls \o (IF loess THEN <<"lowess">> ELSE <<>>)
                 /\ pf' = IF points THEN GroupBy(1, "continuous", <<>>) ELSE pf
                 /\ ffpc' = "referenced"
            ELSE /\ ffpc' = "ValueError"
                 /\ UNCHANGED <<calls, pf>>
       ELSE /\ ffpc' = "referenced"
            /\ UNCHANGED <<calls, pf>>
    /\ UNCHANGED <<data, outcome_type, loess, points, rf, dropped, sizes>>
    /\ UNCHANGED emvars

\* lines 304-311
FFFit(fits) ==
    /\ ffpc = "referenced"
    /\ calls' = Append(calls, "glm.fit")
    /\ ffpc' = IF CanFit(fits) THEN "fitted" ELSE "fit_error"
    /\ UNCHANGED <<data, outcome_type, loess, points, rf, dropped, pf, sizes>>
    /\ UNCHANGED emvars

MaxOf(I) == CHOOSE x \in I : \A y \in I : y <= x

\* lines 314, 316: the column of pf the sizes are computed from
SizeColumn(g) == g.x

\* s=[100*(n/max(pf[var])) for n in pf[var]], each size as the fraction num/den
ScatterSizes ==
    [g \in 1..Len(pf) |->
        [num |-> 100 * SizeColumn(pf[g]),
         den |-> MaxOf({SizeColumn(pf[h]) : h \in 1..Len(pf)})]]

\* lines 312-329
FFRender ==
    /\ ffpc = "fitted"
    /\ sizes' = IF points THEN ScatterSizes ELSE sizes
    /\ calls' = calls \o (IF points THEN <<"scatter">> ELSE <<>>)
                      \o <<"fill_between", "plot">>
                      \o (IF loess THEN <<"plot">> ELSE <<>>)
                      \o <<"show">>
    /\ ffpc' = "shown"
    /\ UNCHANGED <<data, outcome_type, loess, points, rf, dropped, pf>>
    /\ UNCHANGED emvars

InitFF ==
    /\ EMIdle
    /\ \E n \in 1..MaxObs : data \in [1..n -> DataRows]
    /\ outcome_type \in OutcomeTypes
    /\ loess \in BOOLEAN
    /\ points \in BOOLEAN
    /\ ffpc = "start" /\ rf = <<>> /\ dropped = 0 /\ calls = <<>>
    /\ pf = <<>> /\ sizes = <<>>

NextFF ==
    \/ FFPrepare
    \/ \E fits \in BOOLEAN : FFReference(fits)
    \/ \E fits \in BOOLEAN : FFFit(fits)
    \/ FFRender

SpecFF == InitFF /\ [][NextFF]_vars

\* a caller that uses both utilities
Init == InitPlot \/ InitFF
Next == NextCfg \/ Plot \/ NextFF
Spec == Init /\ [][Next]_vars

-----------------------------------------------------------------------------
(* Properties *)

IsFit(c) == c = "glm.fit"

\* C1: func_form_plot called with an outcome_type other than 'binary' or
\* 'continuous' raises before any call of smf.glm(...).fit(), whatever loess
\* and points are: no fit is ever among the calls made, and the function
\* never gets to a fitted model or a figure.
C1_RaisesBeforeAnyFit ==
    outcome_type \notin {"binary", "continuous"} =>
        /\ \A i \in 1..Len(calls) : ~IsFit(calls[i])
        /\ ffpc \notin {"fitted", "fit_error", "shown"}

\* C2: after labels(conf_int=X) has returned, self.ci = X, and a plot() that
\* follows puts X at the head of the table's CI column.
C2_ConfIntChangesLabel ==
    (Given(supplied.conf_int) /\ exc = "none") =>
        /\ last = "labels" => ci = supplied.conf_int[1]
        /\ (last = "plot" /\ fig.shown) => fig.colLabels[2] = supplied.conf_int[1]

LastOr(o, default) == IF Given(o) THEN o[1] ELSE default

\* C3: after any sequence of labels(...) and colors(...) calls every
\* configuration field holds the value of the most recent call that passed
\* its keyword, or the constructor's default when no call did, and the data
\* table is the one the constructor built.
C3_LastSuppliedOrDefault ==
    phase = "ready" =>
        /\ em = LastOr(supplied.effectmeasure, "OR")
        /\ ci = LastOr(supplied.conf_int, "95% CI")
        /\ scale = LastOr(supplied.scale, "log")
        /\ center = LastOr(supplied.center, 100)
        /\ errc = LastOr(supplied.errorbarcolor, "dimgrey")
        /\ linec = LastOr(supplied.linecolor, "gray")
        /\ pc = LastOr(supplied.pointcolor, "k")
        /\ shape = LastOr(supplied.pointshape, "d")
        /\ df = [i \in 1..Len(effect_measure) |-> BuildRow(i)]

\* C4: the count func_form_plot prints is the number of rows of the dataset
\* with a missing outcome or a missing predictor; a missing value in another
\* column does not count.
C4_DroppedCountsModelColumns ==
    ffpc # "start" =>
        dropped = Cardinality({i \in 1..Len(data) : data[i].x = NA \/ data[i].y = NA})

\* C5: in plot() maxi is defined for every maximum m of the upper bounds:
\* round(m + 0.05, 2) below 1, round(m + 1) from 1 to 9 inclusive,
\* round(m + 10) above 9.
C5_MaxiTotal ==
    LET m == SeriesMax(ucl)
    IN  (last = "plot" /\ ~m.nan) =>
            maxi = IF m.v < 100 THEN Assigned(RoundTo(m.v + 5, 2))
                   ELSE IF m.v <= 900 THEN Assigned(RoundTo(m.v + 100, 0))
                   ELSE Assigned(RoundTo(m.v + 1000, 0))

\* the cells the table shows for input element i under some decimal
CellsOfInput(i, cells) ==
    IF isfloat(effect_measure[i]) /\ effect_measure[i].nan
    THEN cells = BlankCells
    ELSE IF isfloat(effect_measure[i]) /\ isfloat(lcl[i]) /\ isfloat(ucl[i])
    THEN \E d \in DecimalArgs :
            /\ cells.em = F(RoundTo(effect_measure[i].v, d))
            /\ cells.ci.lo = F(RoundTo(lcl[i].v, d))
            /\ cells.ci.hi = F(RoundTo(ucl[i].v, d))
    ELSE cells.em = effect_measure[i] /\ cells.ci.lo = lcl[i] /\ cells.ci.hi = ucl[i]

Observations(g) == Cardinality({i \in 1..Len(rf) : <<rf[i].x, YKey(i, outcome_type)>> = <<g.x, g.y>>})

\* C7: with points=True func_form_plot draws one point per distinct
\* (predictor value, y value) group, and the sizes of the points are
\* proportional to the numbers of observations of their groups.
C7_SizeProportionalToCount ==
    (ffpc = "shown" /\ points) =>
        /\ Len(sizes) = Cardinality(GroupKeys(outcome_type))
        /\ \A g, h \in 1..Len(sizes) :
              sizes[g].num * sizes[h].den * Observations(pf[h])
                  = sizes[h].num * sizes[g].den * Observations(pf[g])

\* C8 as stated: with a scale that is neither 'log' nor 'linear', plot()
\* fails instead of rendering.
C8_UnknownScaleFails ==
    (last = "plot" /\ scale \notin {"log", "linear"}) => (exc # "none" /\ ~fig.shown)

\* C8 as amended: with a scale that is neither 'log' nor 'linear', plot()
\* never calls set_xscale, so the x axis stays linear, and plot() fails only
\* for a reason of the data (maxi or mini unassigned, a negative error-bar
\* width), never because of the scale.
C8_UnknownScaleIsLinear ==
    (last = "plot" /\ scale \notin {"log", "linear"}) =>
        /\ fig.xscale = "linear"
        /\ exc # "none" => (~maxi.set \/ ~mini.set \/ NegativeXerr)
        /\ exc = "none" => fig.shown

C8_Witness ==
    /\ last = "plot"
    /\ scale = "sqrt"
    /\ supplied.scale = <<"sqrt">>
    /\ exc = "none"
    /\ fig.shown
    /\ fig.xscale = "linear"

\* C9: in every constructed effectmeasure_plot each row with numeric values
\* has lower_delta >= 0 and upper_delta >= 0 (a row with lower > estimate or
\* upper < estimate is rejected, not stored).
C9_DeltasNonNegative ==
    phase = "ready" =>
        \A i \in 1..Len(df) :
            /\ ~df[i].LCL_dif.nan => df[i].LCL_dif.v >= 0
            /\ ~df[i].UCL_dif.nan => df[i].UCL_dif.v >= 0

\* C10: whenever plot() gets to the axis limits (line 216) with a numeric
\* minimum of the lower bounds, zero included, mini has been assigned.
C10_MiniAssigned ==
    (last = "plot" /\ fig.errorbar /\ ~SeriesMin(lcl).nan) => mini.set

====
